---- MODULE Spec2Model ----
(***************************************************************************)
(* The IMAP IDLE extension of rust-imap (src/src/extensions/idle.rs):      *)
(* the Handle state machine (make/init, terminate, wait, wait_timeout,     *)
(* wait_keepalive, drop) over a Session whose I/O calls may each succeed   *)
(* or fail, and a transport with a read deadline.                          *)
(*                                                                         *)
(* Every call the Handle makes on the Session or on the transport is one   *)
(* step; `ops` is the log of those calls for the current Handle, each with *)
(* its argument and its outcome.  A "DONE line written" is a call          *)
(* write_line(b"DONE") in that log.                                        *)
(***************************************************************************)
EXTENDS Integers, Sequences, FiniteSets, TLC

VARIABLES
    pc,          \* position of the thread inside idle.rs
    done,        \* Handle.done
    keepalive,   \* Handle.keepalive (seconds)
    old_timeout, \* Handle.old_timeout : Option<Duration>
    deadline,    \* the transport's read deadline : Option<Duration>
    timeout,     \* wait_timeout's parameter : Option (None outside wait_timeout)
    caller,      \* who called terminate: wait_inner, wait_inner_keepalive, drop
    ret,         \* the value the running public operation is about to return
    tret,        \* the value the last call of terminate returned
    result,      \* the value the caller received from the last public operation
    op,          \* the public operation running or last run
    ops,         \* log of the I/O calls made for the current Handle
    rd,          \* outcome of the line read of the wait operation
    prior,       \* the transport's read deadline when the wait operation was called
    doneBy,      \* the caller of the terminate that wrote DONE
    constructed, \* make returned Ok(handle)
    nHandles,    \* number of Session::idle() calls so far
    kaSet,       \* the interval last given to set_keepalive on this Handle : Option
    wire,        \* what was written on the connection since the last release: <<kind, handle>>
    silent       \* the server sends nothing after this Handle's handshake

vars == <<pc, done, keepalive, old_timeout, deadline, timeout, caller, ret, tret,
          result, op, ops, rd, prior, doneBy, constructed, nHandles, kaSet, wire, silent>>

----------------------------------------------------------------------------
(* Bounds *)

MaxHandles == 2
MaxLineLen == 2

(* Program constants *)

KeepaliveDefault == 29 * 60
DrainSecs == 60

----------------------------------------------------------------------------
(* Values *)

None == <<>>
Some(d) == <<d>>

Ok(v) == <<"Ok", v>>
Err(call, variant, kind) == <<"Err", call, variant, kind>>
NoValue == <<"None">>
Panic == <<"Panic">>

IsErr(r) == r[1] = "Err"
IsOk(r) == r[1] = "Ok"

\* Error values a read of the Session can produce: io::Error kinds and a
\* non-Io variant of imap::error::Error.
ReadFailures ==
    { <<"Io", "TimedOut">>, <<"Io", "WouldBlock">>,
      <<"Io", "ConnectionReset">>, <<"ConnectionLost", "">> }

\* Error values a write, a flush or a deadline operation can produce.
IoFailures == { <<"Io", "BrokenPipe">> }

ReadOutcomes(call) ==
    {Ok("unit")} \cup {Err(call, f[1], f[2]) : f \in ReadFailures}

IoOutcomes(call) ==
    {Ok("unit")} \cup {Err(call, f[1], f[2]) : f \in IoFailures}

Bytes == {"+", "a"}

RECURSIVE SeqsOfLen(_)
SeqsOfLen(n) ==
    IF n = 0 THEN {<<>>}
    ELSE {Append(s, b) : s \in SeqsOfLen(n - 1), b \in Bytes}

\* The raw lines readline can hand back (content abstracted to two bytes).
Lines == UNION {SeqsOfLen(n) : n \in 1..MaxLineLen}

\* Durations a caller passes to wait_timeout / set_keepalive (seconds).
Durations == {2, 20}

\* Read deadlines the transport can have before a Handle is made.
InitDeadlines == {None, Some(5), Some(DrainSecs)}

----------------------------------------------------------------------------
(* Pure helpers *)

\* Mutant of StartsWith: the line must be exactly the prefix.
StartsWithExact(v, p) == v = p

\* <[u8]>::starts_with
StartsWith(v, p) ==
    /\ Len(v) >= Len(p)
    /\ SubSeq(v, 1, Len(p)) = p

\* Err(Error::Io(ref e)) if e.kind() == TimedOut || e.kind() == WouldBlock
IsTimeoutErr(r) ==
    /\ IsErr(r)
    /\ r[3] = "Io"
    /\ (r[4] = "TimedOut" \/ r[4] = "WouldBlock")

\* Mutant of WaitInnerArm: no arm for timeout / would-block.
WaitInnerArmNoTimeout(r) ==
    IF IsErr(r) THEN "err" ELSE "true"

\* Mutant of WaitInnerArm: a line that arrives ends the long-wait at once.
WaitInnerArmEager(r) ==
    IF IsErr(r) /\ ~IsTimeoutErr(r) THEN "err" ELSE "terminate"

\* The arm wait_inner's match takes for the outcome r of readline.
WaitInnerArm(r) ==
    IF IsTimeoutErr(r) THEN "terminate"
    ELSE IF IsErr(r) THEN "err"
    ELSE "true"

\* Mutant of WikArm: no arm for timeout / would-block.
WikArmNoTimeout(r) == "restore"

\* The arm wait_inner_keepalive's match takes for the outcome r of readline:
\* the timeout arm, or the catch-all arm `v => { restore_timeout()?; v }`.
WikArm(r) ==
    IF IsTimeoutErr(r) THEN "drain" ELSE "restore"

\* Mutant of MustTerminate: the done flag is not consulted.
MustTerminateAlways(d) == TRUE

\* terminate's test `if !self.done`
MustTerminate(d) == ~d

\* Mutant of TakeOldTimeout: the deadline is cleared instead of restored.
TakeOldTimeoutNone(old) == None

\* Mutant of TakeOldTimeout: the wait's own timeout is handed back.
TakeOldTimeoutWait(old) == timeout

\* self.old_timeout.take(): the value handed to set_read_timeout
TakeOldTimeout(old) == old

\* Mutant of DrainDeadline: the saved deadline is installed instead of 60 s.
DrainDeadlineSaved == old_timeout

\* Some(Duration::from_secs(60))
DrainDeadline == Some(DrainSecs)

\* What a read of the Session can yield for this Handle after its handshake:
\* any outcome from a server that talks; from a server that sends nothing,
\* a timeout once the read deadline expires, and with no deadline nothing at
\* all (the read blocks).
ReadResults(call) ==
    IF ~silent THEN ReadOutcomes(call)
    ELSE IF deadline = None THEN {}
    ELSE {Err(call, "Io", "TimedOut"), Err(call, "Io", "WouldBlock")}

\* The Handle is released when drop's terminate returns: the record of what
\* was written while it was held ends there.
WireRelease(w) ==
    IF caller = "drop" THEN <<>> ELSE w

LogOp(call, arg, res) == Append(ops, [op |-> call, arg |-> arg, res |-> res])

----------------------------------------------------------------------------
Init ==
    /\ pc = "ready"
    /\ done = FALSE
    /\ keepalive = KeepaliveDefault
    /\ old_timeout = None
    /\ deadline \in InitDeadlines
    /\ timeout = None
    /\ caller = "none"
    /\ ret = NoValue
    /\ tret = NoValue
    /\ result = NoValue
    /\ op = "none"
    /\ ops = <<>>
    /\ rd = NoValue
    /\ prior = None
    /\ doneBy = "none"
    /\ constructed = FALSE
    /\ nHandles = 0
    /\ kaSet = None
    /\ wire = <<>>
    /\ silent = FALSE

\* A public operation returns r: its Handle goes out of scope and is dropped.
ReturnAndDrop(r) ==
    /\ ret' = r
    /\ pc' = "drop"

\* Mutant of Make: Session::idle() can be called while a Handle is held.
MakeWhileHeld ==
    /\ pc \in {"ready", "released", "constructed"}
    /\ result # Panic
    /\ nHandles < MaxHandles
    /\ nHandles' = nHandles + 1
    /\ pc' = "init_cmd"
    /\ done' = FALSE
    /\ keepalive' = KeepaliveDefault
    /\ old_timeout' = None
    /\ timeout' = None
    /\ caller' = "none"
    /\ ret' = NoValue
    /\ tret' = NoValue
    /\ result' = NoValue
    /\ op' = "make"
    /\ ops' = <<>>
    /\ rd' = NoValue
    /\ prior' = deadline
    /\ doneBy' = "none"
    /\ constructed' = FALSE
    /\ kaSet' = None
    /\ silent' = FALSE
    /\ UNCHANGED <<deadline, wire>>

\* Handle::make: the struct is built, init is about to run.
Make ==
    /\ pc \in {"ready", "released"}
    /\ result # Panic
    /\ nHandles < MaxHandles
    /\ nHandles' = nHandles + 1
    /\ pc' = "init_cmd"
    /\ done' = FALSE
    /\ keepalive' = KeepaliveDefault
    /\ old_timeout' = None
    /\ timeout' = None
    /\ caller' = "none"
    /\ ret' = NoValue
    /\ tret' = NoValue
    /\ result' = NoValue
    /\ op' = "make"
    /\ ops' = <<>>
    /\ rd' = NoValue
    /\ prior' = deadline
    /\ doneBy' = "none"
    /\ constructed' = FALSE
    /\ kaSet' = None
    /\ silent' = FALSE
    /\ UNCHANGED <<deadline, wire>>

\* init: self.session.run_command("IDLE")?
InitRunCommand ==
    /\ pc = "init_cmd"
    /\ \E r \in IoOutcomes("run_command") :
        /\ ops' = LogOp("run_command", <<"IDLE">>, r)
        /\ IF IsOk(r)
           THEN pc' = "init_read" /\ UNCHANGED ret
           ELSE ReturnAndDrop(r)
    /\ wire' = Append(wire, <<"IDLE", nHandles>>)
    /\ UNCHANGED <<done, keepalive, old_timeout, deadline, timeout, caller, tret,
                   result, op, rd, prior, doneBy, constructed, nHandles, kaSet, silent>>

\* init: self.session.readline(&mut v)?; if v.starts_with(b"+") { ... }
InitReadline ==
    /\ pc = "init_read"
    /\ \/ \E v \in Lines :
            /\ ops' = LogOp("readline", v, Ok("unit"))
            /\ IF StartsWith(v, <<"+">>)
               THEN /\ done' = FALSE
                    /\ pc' = "constructed"
                    /\ constructed' = TRUE
                    /\ result' = Ok("handle")
                    /\ \E quiet \in BOOLEAN : silent' = quiet
               ELSE /\ pc' = "init_onto"
                    /\ UNCHANGED <<done, constructed, result, silent>>
            /\ UNCHANGED ret
       \/ \E r \in ReadOutcomes("readline") :
            /\ IsErr(r)
            /\ ops' = LogOp("readline", <<>>, r)
            /\ ReturnAndDrop(r)
            /\ UNCHANGED <<done, constructed, result, silent>>
    /\ UNCHANGED <<keepalive, old_timeout, deadline, timeout, caller, tret,
                   op, rd, prior, doneBy, nHandles, kaSet, wire>>

\* init: self.session.read_response_onto(&mut v)?; unreachable!()
InitReadResponseOnto ==
    /\ pc = "init_onto"
    /\ \E r \in ReadOutcomes("read_response_onto") :
        /\ ops' = LogOp("read_response_onto", <<>>, r)
        /\ IF IsOk(r)
           THEN pc' = "unreachable" /\ UNCHANGED ret
           ELSE ReturnAndDrop(r)
    /\ UNCHANGED <<done, keepalive, old_timeout, deadline, timeout, caller, tret,
                   result, op, rd, prior, doneBy, constructed, nHandles, kaSet, wire, silent>>

\* unreachable!() in a build that unwinds: the Handle in make's frame is dropped.
PanicUnwind ==
    /\ pc = "unreachable"
    /\ ReturnAndDrop(Panic)
    /\ UNCHANGED <<done, keepalive, old_timeout, deadline, timeout, caller, tret,
                   result, op, ops, rd, prior, doneBy, constructed, nHandles, kaSet, wire, silent>>

\* unreachable!() in a build with panic = "abort": the process ends, nothing is dropped.
PanicAbort ==
    /\ pc = "unreachable"
    /\ pc' = "aborted"
    /\ result' = Panic
    /\ UNCHANGED <<done, keepalive, old_timeout, deadline, timeout, caller, ret, tret,
                   op, ops, rd, prior, doneBy, constructed, nHandles, kaSet, wire, silent>>

\* Any other command of the Session (the example's fetch and logout): it
\* needs the Session itself, which a live Handle holds by `&'a mut`.
\* (a run of such commands is recorded as one entry)
SessionCommand ==
    /\ pc \in {"ready", "released"}
    /\ result # Panic
    /\ \A i \in {Len(wire)} \ {0} : wire[i] # <<"CMD", 0>>
    /\ wire' = Append(wire, <<"CMD", 0>>)
    /\ UNCHANGED <<pc, done, keepalive, old_timeout, deadline, timeout, caller, ret,
                   tret, result, op, ops, rd, prior, doneBy, constructed, nHandles,
                   kaSet, silent>>

----------------------------------------------------------------------------
(* The caller holds a Handle *)

\* Handle::set_keepalive
SetKeepalive(d) ==
    /\ pc = "constructed"
    /\ keepalive' = d
    /\ kaSet' = Some(d)
    /\ UNCHANGED <<pc, done, old_timeout, deadline, timeout, caller, ret, tret,
                   result, op, ops, rd, prior, doneBy, constructed, nHandles, wire, silent>>

\* Handle::wait
Wait ==
    /\ pc = "constructed"
    /\ op' = "wait"
    /\ pc' = "wait_read"
    /\ prior' = deadline
    /\ result' = NoValue
    /\ UNCHANGED <<done, keepalive, old_timeout, deadline, timeout, caller, ret, tret,
                   ops, rd, doneBy, constructed, nHandles, kaSet, wire, silent>>

\* Mutant of WaitKeepalive: the default interval is used whatever was set.
WaitKeepaliveDefault ==
    /\ pc = "constructed"
    /\ op' = "wait_keepalive"
    /\ timeout' = Some(KeepaliveDefault)
    /\ pc' = "wt_get"
    /\ prior' = deadline
    /\ result' = NoValue
    /\ UNCHANGED <<done, keepalive, old_timeout, deadline, caller, ret, tret,
                   ops, rd, doneBy, constructed, nHandles, kaSet, wire, silent>>

\* Handle::wait_keepalive
WaitKeepalive ==
    /\ pc = "constructed"
    /\ op' = "wait_keepalive"
    /\ timeout' = Some(keepalive)
    /\ pc' = "wt_get"
    /\ prior' = deadline
    /\ result' = NoValue
    /\ UNCHANGED <<done, keepalive, old_timeout, deadline, caller, ret, tret,
                   ops, rd, doneBy, constructed, nHandles, kaSet, wire, silent>>

\* Handle::wait_timeout
WaitTimeout(d) ==
    /\ pc = "constructed"
    /\ op' = "wait_timeout"
    /\ timeout' = Some(d)
    /\ pc' = "wt_get"
    /\ prior' = deadline
    /\ result' = NoValue
    /\ UNCHANGED <<done, keepalive, old_timeout, deadline, caller, ret, tret,
                   ops, rd, doneBy, constructed, nHandles, kaSet, wire, silent>>

\* The caller lets the Handle go out of scope without waiting.
DropUnused ==
    /\ pc = "constructed"
    /\ op' = "drop"
    /\ result' = NoValue
    /\ ReturnAndDrop(NoValue)
    /\ UNCHANGED <<done, keepalive, old_timeout, deadline, timeout, caller, tret,
                   ops, rd, prior, doneBy, constructed, nHandles, kaSet, wire, silent>>

----------------------------------------------------------------------------
(* terminate *)

\* Mutant of AfterTerminate: the waits ignore what terminate returned.
AfterTerminateIgnored(r) ==
    /\ tret' = r
    /\ IF caller = "drop"
       THEN /\ pc' = "released"
            /\ result' = ret
            /\ UNCHANGED ret
       ELSE /\ ReturnAndDrop(Ok("false"))
            /\ UNCHANGED result

\* terminate returns r to its caller: wait_inner and wait_inner_keepalive apply
\* `self.terminate()?; Ok(false)` and return; drop discards r and the public
\* operation's value reaches the caller.
AfterTerminate(r) ==
    /\ tret' = r
    /\ IF caller = "drop"
       THEN /\ pc' = "released"
            /\ result' = ret
            /\ UNCHANGED ret
       ELSE /\ ReturnAndDrop(IF IsOk(r) THEN Ok("false") ELSE r)
            /\ UNCHANGED result

\* Mutant of TerminateBegin: the flag is not set before DONE is written.
TerminateBeginNoFlag ==
    /\ pc = "terminate"
    /\ MustTerminate(done)
    /\ done' = done
    /\ doneBy' = caller
    /\ pc' = "term_write"
    /\ UNCHANGED <<keepalive, old_timeout, deadline, timeout, caller, ret, tret,
                   result, op, ops, rd, prior, constructed, nHandles, kaSet, wire, silent>>

\* terminate: if !self.done { self.done = true; ...
TerminateBegin ==
    /\ pc = "terminate"
    /\ MustTerminate(done)
    /\ done' = TRUE
    /\ doneBy' = caller
    /\ pc' = "term_write"
    /\ UNCHANGED <<keepalive, old_timeout, deadline, timeout, caller, ret, tret,
                   result, op, ops, rd, prior, constructed, nHandles, kaSet, wire, silent>>

\* terminate: } else { Ok(()) }
TerminateNoop ==
    /\ pc = "terminate"
    /\ ~MustTerminate(done)
    /\ AfterTerminate(Ok("unit"))
    /\ wire' = WireRelease(wire)
    /\ UNCHANGED <<done, keepalive, old_timeout, deadline, timeout, caller,
                   op, ops, rd, prior, doneBy, constructed, nHandles, kaSet, silent>>

\* Mutant of TermWriteLine: the response is read without flushing first.
TermWriteLineNoFlush ==
    /\ pc = "term_write"
    /\ \E r \in IoOutcomes("write_line") :
        /\ ops' = LogOp("write_line", <<"DONE">>, r)
        /\ IF IsOk(r)
           THEN /\ pc' = "term_read"
                /\ wire' = Append(wire, <<"DONE", nHandles>>)
                /\ UNCHANGED <<ret, tret, result>>
           ELSE /\ AfterTerminate(r)
                /\ wire' = WireRelease(Append(wire, <<"DONE", nHandles>>))
    /\ UNCHANGED <<done, keepalive, old_timeout, deadline, timeout, caller,
                   op, rd, prior, doneBy, constructed, nHandles, kaSet, silent>>

\* terminate: self.session.write_line(b"DONE")?
TermWriteLine ==
    /\ pc = "term_write"
    /\ \E r \in IoOutcomes("write_line") :
        /\ ops' = LogOp("write_line", <<"DONE">>, r)
        /\ IF IsOk(r)
           THEN /\ pc' = "term_flush"
                /\ wire' = Append(wire, <<"DONE", nHandles>>)
                /\ UNCHANGED <<ret, tret, result>>
           ELSE /\ AfterTerminate(r)
                /\ wire' = WireRelease(Append(wire, <<"DONE", nHandles>>))
    /\ UNCHANGED <<done, keepalive, old_timeout, deadline, timeout, caller,
                   op, rd, prior, doneBy, constructed, nHandles, kaSet, silent>>

\* Mutant of TermFlush: a failed flush is ignored.
TermFlushIgnored ==
    /\ pc = "term_flush"
    /\ \E r \in IoOutcomes("flush") :
        /\ ops' = LogOp("flush", <<>>, r)
        /\ pc' = "term_read"
        /\ UNCHANGED <<ret, tret, result, wire>>
    /\ UNCHANGED <<done, keepalive, old_timeout, deadline, timeout, caller,
                   op, rd, prior, doneBy, constructed, nHandles, kaSet, silent>>

\* terminate: self.session.stream.get_mut().flush()?
TermFlush ==
    /\ pc = "term_flush"
    /\ \E r \in IoOutcomes("flush") :
        /\ ops' = LogOp("flush", <<>>, r)
        /\ IF IsOk(r)
           THEN /\ pc' = "term_read"
                /\ UNCHANGED <<ret, tret, result, wire>>
           ELSE /\ AfterTerminate(r)
                /\ wire' = WireRelease(wire)
    /\ UNCHANGED <<done, keepalive, old_timeout, deadline, timeout, caller,
                   op, rd, prior, doneBy, constructed, nHandles, kaSet, silent>>

\* terminate: self.session.read_response().map(|_| ())
TermReadResponse ==
    /\ pc = "term_read"
    /\ \E r \in ReadResults("read_response") :
        /\ ops' = LogOp("read_response", <<>>, r)
        /\ AfterTerminate(r)
    /\ wire' = WireRelease(wire)
    /\ UNCHANGED <<done, keepalive, old_timeout, deadline, timeout, caller,
                   op, rd, prior, doneBy, constructed, nHandles, kaSet, silent>>

\* Mutant of Drop: releasing the Handle does not terminate.
DropForgets ==
    /\ pc = "drop"
    /\ caller' = "drop"
    /\ pc' = "released"
    /\ result' = ret
    /\ wire' = <<>>
    /\ UNCHANGED <<done, keepalive, old_timeout, deadline, timeout, ret, tret,
                   op, ops, rd, prior, doneBy, constructed, nHandles, kaSet, silent>>

\* impl Drop for Handle: let _ = self.terminate().is_ok();
Drop ==
    /\ pc = "drop"
    /\ caller' = "drop"
    /\ pc' = "terminate"
    /\ UNCHANGED <<done, keepalive, old_timeout, deadline, timeout, ret, tret,
                   result, op, ops, rd, prior, doneBy, constructed, nHandles, kaSet, wire, silent>>

----------------------------------------------------------------------------
(* wait *)

\* wait_inner: match self.session.readline(&mut v) { ... }
\* (the line read is discarded: `Ok(_) => Ok(true)`)
WaitInnerRead ==
    /\ pc = "wait_read"
    /\ \E r \in ReadResults("readline") :
        /\ rd' = r
        /\ ops' = LogOp("readline", <<>>, r)
        /\ CASE WaitInnerArm(r) = "terminate" ->
                    /\ caller' = "wait_inner"
                    /\ pc' = "terminate"
                    /\ UNCHANGED ret
             [] WaitInnerArm(r) = "err" ->
                    /\ ReturnAndDrop(r)
                    /\ UNCHANGED caller
             [] WaitInnerArm(r) = "true" ->
                    /\ ReturnAndDrop(Ok("true"))
                    /\ UNCHANGED caller
    /\ UNCHANGED <<done, keepalive, old_timeout, deadline, timeout, tret,
                   result, op, prior, doneBy, constructed, nHandles, kaSet, wire, silent>>

----------------------------------------------------------------------------
(* wait_timeout / wait_keepalive *)

\* wait_timeout: self.old_timeout = self.session.stream.get_mut().read_timeout()?
WtReadTimeout ==
    /\ pc = "wt_get"
    /\ \E r \in IoOutcomes("read_timeout") :
        /\ ops' = LogOp("read_timeout", deadline, r)
        /\ IF IsOk(r)
           THEN /\ old_timeout' = deadline
                /\ pc' = "wt_set"
                /\ UNCHANGED ret
           ELSE /\ ReturnAndDrop(r)
                /\ UNCHANGED old_timeout
    /\ UNCHANGED <<done, keepalive, deadline, timeout, caller, tret,
                   result, op, rd, prior, doneBy, constructed, nHandles, kaSet, wire, silent>>

\* Mutant of WtSetReadTimeout: a failure to install the deadline is ignored
\* and the line read is attempted anyway.
WtSetReadTimeoutIgnored ==
    /\ pc = "wt_set"
    /\ \E r \in IoOutcomes("set_read_timeout") :
        /\ ops' = LogOp("set_read_timeout", timeout, r)
        /\ deadline' = IF IsOk(r) THEN timeout ELSE deadline
        /\ pc' = "wik_read"
        /\ UNCHANGED ret
    /\ UNCHANGED <<done, keepalive, old_timeout, timeout, caller, tret,
                   result, op, rd, prior, doneBy, constructed, nHandles, kaSet, wire, silent>>

\* wait_timeout: self.session.stream.get_mut().set_read_timeout(Some(timeout))?
\* (a set_read_timeout that fails leaves the transport's deadline as it was)
WtSetReadTimeout ==
    /\ pc = "wt_set"
    /\ \E r \in IoOutcomes("set_read_timeout") :
        /\ ops' = LogOp("set_read_timeout", timeout, r)
        /\ IF IsOk(r)
           THEN /\ deadline' = timeout
                /\ pc' = "wik_read"
                /\ UNCHANGED ret
           ELSE /\ ReturnAndDrop(r)
                /\ UNCHANGED deadline
    /\ UNCHANGED <<done, keepalive, old_timeout, timeout, caller, tret,
                   result, op, rd, prior, doneBy, constructed, nHandles, kaSet, wire, silent>>

\* wait_inner_keepalive: match self.session.readline(&mut v).map(|_| true) { ... }
\* In the catch-all arm ret holds v until restore_timeout has run.
WikReadline ==
    /\ pc = "wik_read"
    /\ \E r \in ReadResults("readline") :
        /\ rd' = r
        /\ ops' = LogOp("readline", <<>>, r)
        /\ CASE WikArm(r) = "drain" ->
                    /\ pc' = "wik_drain"
                    /\ UNCHANGED ret
             [] WikArm(r) = "restore" ->
                    /\ pc' = "restore"
                    /\ ret' = IF IsOk(r) THEN Ok("true") ELSE r
    /\ UNCHANGED <<done, keepalive, old_timeout, deadline, timeout, caller, tret,
                   result, op, prior, doneBy, constructed, nHandles, kaSet, wire, silent>>

\* wait_inner_keepalive, timeout arm:
\* set_read_timeout(Some(Duration::from_secs(60)))?; self.terminate()?; Ok(false)
WikSetDrain ==
    /\ pc = "wik_drain"
    /\ \E r \in IoOutcomes("set_read_timeout") :
        /\ ops' = LogOp("set_read_timeout", DrainDeadline, r)
        /\ IF IsOk(r)
           THEN /\ deadline' = DrainDeadline
                /\ caller' = "wait_inner_keepalive"
                /\ pc' = "terminate"
                /\ UNCHANGED ret
           ELSE /\ ReturnAndDrop(r)
                /\ UNCHANGED <<deadline, caller>>
    /\ UNCHANGED <<done, keepalive, old_timeout, timeout, tret,
                   result, op, rd, prior, doneBy, constructed, nHandles, kaSet, wire, silent>>

\* Mutant of RestoreTimeout: the catch-all arm hands v back without restoring.
RestoreTimeoutSkipped ==
    /\ pc = "restore"
    /\ ReturnAndDrop(ret)
    /\ UNCHANGED <<done, keepalive, old_timeout, deadline, timeout, caller, tret,
                   result, op, ops, rd, prior, doneBy, constructed, nHandles, kaSet, wire, silent>>

\* restore_timeout, and the rest of the catch-all arm: self.restore_timeout()?; v
RestoreTimeout ==
    /\ pc = "restore"
    /\ \E r \in IoOutcomes("set_read_timeout") :
        /\ ops' = LogOp("set_read_timeout", TakeOldTimeout(old_timeout), r)
        /\ old_timeout' = None
        /\ IF IsOk(r)
           THEN /\ deadline' = TakeOldTimeout(old_timeout)
                /\ ReturnAndDrop(ret)
           ELSE /\ ReturnAndDrop(r)
                /\ UNCHANGED deadline
    /\ UNCHANGED <<done, keepalive, timeout, caller, tret,
                   result, op, rd, prior, doneBy, constructed, nHandles, kaSet, wire, silent>>

----------------------------------------------------------------------------
Next ==
    \/ Make
    \/ SessionCommand
    \/ InitRunCommand
    \/ InitReadline
    \/ InitReadResponseOnto
    \/ PanicUnwind
    \/ PanicAbort
    \/ \E d \in Durations : SetKeepalive(d)
    \/ Wait
    \/ WaitKeepalive
    \/ \E d \in Durations : WaitTimeout(d)
    \/ DropUnused
    \/ WaitInnerRead
    \/ WtReadTimeout
    \/ WtSetReadTimeout
    \/ WikReadline
    \/ WikSetDrain
    \/ RestoreTimeout
    \/ Drop
    \/ TerminateBegin
    \/ TerminateNoop
    \/ TermWriteLine
    \/ TermFlush
    \/ TermReadResponse

Spec == Init /\ [][Next]_vars

\* The steps the thread takes by itself once the caller has called into the
\* Handle: it keeps running unless a read blocks.
Running ==
    \/ InitRunCommand
    \/ InitReadline
    \/ InitReadResponseOnto
    \/ PanicUnwind
    \/ PanicAbort
    \/ WaitInnerRead
    \/ WtReadTimeout
    \/ WtSetReadTimeout
    \/ WikReadline
    \/ WikSetDrain
    \/ RestoreTimeout
    \/ Drop
    \/ TerminateBegin
    \/ TerminateNoop
    \/ TermWriteLine
    \/ TermFlush
    \/ TermReadResponse

SpecLive == Init /\ [][Next]_vars /\ WF_vars(Running)

----------------------------------------------------------------------------
(* Vocabulary of the properties *)

\* Number of write_line(b"DONE") calls made for the current Handle.
DoneWrites ==
    Cardinality({i \in 1..Len(ops) :
                    ops[i].op = "write_line" /\ ops[i].arg = <<"DONE">>})

OpsNamed(name) == SelectSeq(ops, LAMBDA e : e.op = name)

\* The calls that failed, in order.
FailedOps == SelectSeq(ops, LAMBDA e : e.res[1] = "Err")

Released == pc = "released"
TimedWaits == {"wait_timeout", "wait_keepalive"}
InTerminate == pc \in {"terminate", "term_write", "term_flush", "term_read"}

\* The wait's line read failed with timed-out or would-block.
RdTimedOut ==
    rd \in { <<"Err", "readline", "Io", "TimedOut">>,
             <<"Err", "readline", "Io", "WouldBlock">> }

\* The wait's line read failed with any other error.
RdOtherErr == rd[1] = "Err" /\ ~RdTimedOut

RdLine == rd[1] = "Ok"

----------------------------------------------------------------------------
(* C1: whenever the first line read after the IDLE command does not begin   *)
(* with '+', construction yields no Handle, no DONE line is written for     *)
(* that attempt, and nothing more is read from or written to the Session    *)
(* (read_response_onto, which parses the line already read, is not counted  *)
(* as a further read here).                                                 *)
C1_RejectedHandshakeLeavesSession ==
    (/\ op = "make"
     /\ Len(ops) >= 2
     /\ ops[2].op = "readline"
     /\ ops[2].res[1] = "Ok"
     /\ ops[2].arg[1] # "+") =>
        /\ ~constructed
        /\ DoneWrites = 0
        /\ \A i \in 3..Len(ops) : ops[i].op = "read_response_onto"
        /\ Released => result # <<"Ok", "handle">>

(* C2: for every successfully constructed Handle, however it is used and    *)
(* released, write_line(b"DONE") has been called exactly once by the time   *)
(* the Handle is released, and never more than once before that.            *)
C2_ExactlyOneDone ==
    constructed =>
        /\ DoneWrites <= 1
        /\ (Released => DoneWrites = 1)

\* A wait_timeout that timed out, terminated itself and then was dropped.
C2_Witness ==
    /\ Released
    /\ constructed
    /\ op = "wait_timeout"
    /\ result = <<"Ok", "false">>
    /\ DoneWrites = 1

(* C3 as stated: wait_timeout(d) with a line arriving before the deadline   *)
(* returns true and leaves the transport's read deadline equal to the one   *)
(* in effect before the call.                                               *)
C3_Original ==
    (Released /\ op \in TimedWaits /\ RdLine) =>
        /\ result = <<"Ok", "true">>
        /\ deadline = prior

(* C3 amended: with a line arriving, the saved deadline (the one in effect  *)
(* before the call) is handed back to the transport right after the read;   *)
(* if that set succeeds the call returns true and the read deadline after   *)
(* return equals the prior one; if it fails the call returns that error and *)
(* the deadline stays at d.                                                 *)
C3_Amended ==
    (Released /\ op \in TimedWaits /\ RdLine) =>
        LET s == OpsNamed("set_read_timeout") IN
        /\ Len(s) = 2
        /\ s[2].arg = prior
        /\ IF s[2].res[1] = "Ok"
           THEN result = <<"Ok", "true">> /\ deadline = prior
           ELSE result = s[2].res /\ deadline = timeout

C3_Witness ==
    /\ Released
    /\ op = "wait_timeout"
    /\ RdLine
    /\ result = <<"Ok", "true">>
    /\ prior = <<5>>
    /\ timeout = <<20>>
    /\ deadline = <<5>>

(* C4 as stated: wait_timeout(d) with no line before the deadline returns   *)
(* false, writes exactly one DONE and leaves the read deadline at 60 s.     *)
C4_Original ==
    (Released /\ op \in TimedWaits /\ RdTimedOut) =>
        /\ result = <<"Ok", "false">>
        /\ DoneWrites = 1
        /\ deadline = <<60>>

(* C4 amended: with no line before the deadline, the 60 s deadline is       *)
(* installed (never the saved one) and exactly one DONE is written by the   *)
(* time the Handle is released; the call returns false and the deadline is  *)
(* 60 s when the install and the termination succeed; otherwise the call    *)
(* returns the error of the first of them that failed, and the deadline is  *)
(* 60 s only if the install succeeded (else it stays at d).                 *)
C4_Amended ==
    (Released /\ op \in TimedWaits /\ RdTimedOut) =>
        LET s == OpsNamed("set_read_timeout") IN
        /\ DoneWrites = 1
        /\ Len(s) = 2
        /\ s[2].arg = <<60>>
        /\ deadline = (IF s[2].res[1] = "Ok" THEN <<60>> ELSE timeout)
        /\ result = (IF Len(FailedOps) >= 2
                        THEN FailedOps[2].res
                        ELSE <<"Ok", "false">>)

C4_Witness ==
    /\ Released
    /\ op = "wait_timeout"
    /\ rd = <<"Err", "readline", "Io", "TimedOut">>
    /\ result = <<"Ok", "false">>
    /\ prior = <<5>>
    /\ deadline = <<60>>
    /\ DoneWrites = 1

(* C5 as stated: wait() returns true for a line, hands every read error to  *)
(* its caller, never returns false and never terminates in response to a   *)
(* read error.                                                              *)
C5_Original ==
    op = "wait" =>
        /\ ~(InTerminate /\ caller = "wait_inner")
        /\ (Released /\ RdLine => result = <<"Ok", "true">>)
        /\ (Released /\ rd[1] = "Err" => result = rd)
        /\ (Released => result # <<"Ok", "false">>)

(* C5 amended: wait() returns true for a line and hands every read error    *)
(* other than timed-out / would-block to its caller unchanged; on a         *)
(* timed-out / would-block read error wait_inner itself terminates (writes  *)
(* DONE) and wait() returns false, or the termination's error if it fails.  *)
C5_Amended ==
    (Released /\ op = "wait") =>
        /\ RdLine => (result = <<"Ok", "true">> /\ doneBy = "drop")
        /\ RdOtherErr => (result = rd /\ doneBy = "drop")
        /\ RdTimedOut =>
            /\ doneBy = "wait_inner"
            /\ result = (IF Len(FailedOps) >= 2
                            THEN FailedOps[2].res
                            ELSE <<"Ok", "false">>)

C5_Witness ==
    /\ Released
    /\ op = "wait"
    /\ rd = <<"Err", "readline", "Io", "WouldBlock">>
    /\ result = <<"Ok", "false">>
    /\ doneBy = "wait_inner"
    /\ DoneWrites = 1

(* C6 as stated: in wait_timeout a line read failing with an error other    *)
(* than timed-out / would-block returns that error at once: no set-deadline *)
(* call follows the failed read, and DONE is written only at release.       *)
C6_Original ==
    (Released /\ op \in TimedWaits /\ RdOtherErr) =>
        /\ result = rd
        /\ Len(OpsNamed("set_read_timeout")) = 1
        /\ doneBy = "drop"

(* C6 amended: in wait_timeout a line read failing with another error is    *)
(* followed by exactly one set-deadline call, restoring the saved deadline, *)
(* before anything else; the read's error is returned if that call          *)
(* succeeds, the call's own error if it fails; DONE is written only by the  *)
(* termination at release.                                                  *)
C6_Amended ==
    (Released /\ op \in TimedWaits /\ RdOtherErr) =>
        LET s == OpsNamed("set_read_timeout") IN
        /\ Len(s) = 2
        /\ s[2].arg = prior
        /\ ops[5].op = "readline" /\ ops[5].res = rd
        /\ ops[6] = s[2]
        /\ ops[7].op = "write_line"
        /\ result = (IF s[2].res[1] = "Ok" THEN rd ELSE s[2].res)
        /\ deadline = (IF s[2].res[1] = "Ok" THEN prior ELSE timeout)
        /\ doneBy = "drop"
        /\ DoneWrites = 1

C6_Witness ==
    /\ Released
    /\ op = "wait_timeout"
    /\ rd = <<"Err", "readline", "Io", "ConnectionReset">>
    /\ result = rd
    /\ prior = <<5>>
    /\ deadline = <<5>>
    /\ Len(OpsNamed("set_read_timeout")) = 2

(* C7: a call of terminate on a Handle whose done is already true (a second *)
(* call, after a first that succeeded or failed) makes no I/O call, changes *)
(* neither done nor the deadline, and returns Ok(()) straight to its caller. *)
C7_SecondTerminateIsNoop ==
    [][(pc = "terminate" /\ done) =>
          /\ ops' = ops
          /\ done' = TRUE
          /\ deadline' = deadline
          /\ tret' = <<"Ok", "unit">>
          /\ pc' \in {"released", "drop"}]_vars

\* The second call has just returned Ok(()) after a first call that failed.
C7_Witness ==
    /\ Released
    /\ doneBy = "wait_inner_keepalive"
    /\ DoneWrites = 1
    /\ result[1] = "Err"
    /\ result[2] = "flush"
    /\ tret = <<"Ok", "unit">>

(* C8 as stated: when wait or wait_timeout hands true to the caller, no     *)
(* DONE has been written.                                                   *)
C8_Original ==
    (Released /\ op \in {"wait", "wait_timeout", "wait_keepalive"}
              /\ result = <<"Ok", "true">>) =>
        DoneWrites = 0

(* C8 amended: data arriving does not make the wait logic terminate: when   *)
(* wait_inner / wait_inner_keepalive produce true no DONE has been written  *)
(* and done is false, and after a successful line read terminate is only    *)
(* ever called by drop; but the wait operations consume the Handle, so it   *)
(* is released as they return and the caller receives true only after       *)
(* drop's terminate has written DONE (once).                                *)
C8_Amended ==
    /\ (pc = "drop" /\ ret = <<"Ok", "true">>) => (DoneWrites = 0 /\ ~done)
    /\ (InTerminate /\ RdLine) => caller = "drop"
    /\ (Released /\ RdLine /\ op = "wait") => result = <<"Ok", "true">>
    /\ (Released /\ result = <<"Ok", "true">>) =>
           (doneBy = "drop" /\ done /\ DoneWrites = 1)

C8_Witness ==
    /\ Released
    /\ op = "wait"
    /\ RdLine
    /\ result = <<"Ok", "true">>
    /\ DoneWrites = 1
    /\ doneBy = "drop"

(* C9 as stated: in wait_timeout / wait_keepalive a timed-out / would-block *)
(* line read always gives the outcome false together with a termination,    *)
(* never an error.                                                          *)
C9_Original ==
    (Released /\ op \in TimedWaits /\ RdTimedOut) =>
        /\ result[1] # "Err"
        /\ result = <<"Ok", "false">>
        /\ doneBy = "wait_inner_keepalive"

(* C9 amended: in wait_timeout / wait_keepalive the timed-out / would-block *)
(* error of the line read is itself never returned; the outcome is false,   *)
(* with the termination run by the wait, whenever installing the 60 s       *)
(* deadline and the termination succeed; when one of them fails, its error  *)
(* (which may be the drain read timing out) is returned instead.            *)
C9_Amended ==
    (Released /\ op \in TimedWaits /\ RdTimedOut) =>
        /\ result # rd
        /\ result[1] = "Err" =>
              result[2] \in {"set_read_timeout", "write_line", "flush",
                             "read_response"}
        /\ result[1] # "Err" =>
              (result = <<"Ok", "false">> /\ doneBy = "wait_inner_keepalive")
        /\ Len(FailedOps) = 1 => result = <<"Ok", "false">>

C9_Witness ==
    /\ Released
    /\ op = "wait_keepalive"
    /\ rd = <<"Err", "readline", "Io", "WouldBlock">>
    /\ result = <<"Err", "read_response", "Io", "TimedOut">>
    /\ doneBy = "wait_inner_keepalive"

(* C10: whenever the IDLE command was written and the first line read       *)
(* begins with '+', construction succeeds, and the Handle it returns is in  *)
(* the active long-wait state: done is false, the only calls made are the   *)
(* IDLE command and one line read, and no DONE has been written.            *)
C10_ContinuationConstructs ==
    (/\ Len(ops) >= 2
     /\ ops[1].res[1] = "Ok"
     /\ ops[2].op = "readline"
     /\ ops[2].res[1] = "Ok"
     /\ ops[2].arg[1] = "+") =>
        /\ constructed
        /\ ops[1] = [op |-> "run_command", arg |-> <<"IDLE">>,
                     res |-> <<"Ok", "unit">>]
        /\ pc = "constructed" =>
              /\ ~done
              /\ result = <<"Ok", "handle">>
              /\ Len(ops) = 2
              /\ DoneWrites = 0
              /\ doneBy = "none"

C10_Witness ==
    /\ pc = "constructed"
    /\ Len(ops) = 2
    /\ ops[2].arg = <<"+", "a">>
    /\ ~done

(* C11: a handshake whose first line is not a continuation is rejected as   *)
(* an error value returned from construction, whatever reading the rest of  *)
(* the response yields; construction never panics or aborts.                *)
C11_RejectionIsAnErrorValue ==
    (/\ op = "make"
     /\ Len(ops) >= 2
     /\ ops[2].op = "readline"
     /\ ops[2].res[1] = "Ok"
     /\ ops[2].arg[1] # "+") =>
        /\ pc \notin {"unreachable", "aborted"}
        /\ ret # <<"Panic">>
        /\ Released => result[1] = "Err"

(* C12: an error raised by the termination is returned to the caller when   *)
(* the termination runs inside a wait operation (the timeout branch), and   *)
(* is swallowed when it runs at release: from the moment the Handle is      *)
(* dropped the operation's outcome no longer changes, and that outcome is   *)
(* what the caller receives.                                                *)
DropPhase == pc = "drop" \/ (InTerminate /\ caller = "drop")

C12_ExplicitReturnedImplicitSwallowed ==
    /\ [](/\ (pc = "drop" /\ doneBy \in {"wait_inner", "wait_inner_keepalive"}) =>
                ret = (IF tret[1] = "Err" THEN tret ELSE <<"Ok", "false">>)
          /\ (Released /\ doneBy \in {"wait_inner", "wait_inner_keepalive"}
                       /\ FailedOps # <<>>
                       /\ FailedOps[Len(FailedOps)].op
                            \in {"write_line", "flush", "read_response"}) =>
                result = FailedOps[Len(FailedOps)].res)
    /\ [][DropPhase =>
            /\ ret' = ret
            /\ pc' \in {"terminate", "term_write", "term_flush", "term_read",
                        "released"}
            /\ (pc' = "released" => result' = ret)]_vars

\* A wait_timeout got its line and returned true; the termination at release
\* failed while reading the response, and the caller still has true.
C12_Witness ==
    /\ Released
    /\ op = "wait_timeout"
    /\ result = <<"Ok", "true">>
    /\ doneBy = "drop"
    /\ tret = <<"Err", "read_response", "Io", "ConnectionReset">>

(* C13: wait_keepalive is wait_timeout called with the configured           *)
(* keepalive: its timeout, and the deadline it installs, is the interval    *)
(* last given to set_keepalive, or 29 minutes if set_keepalive was never    *)
(* called; from there it runs wait_timeout's own steps.                     *)
C13_KeepaliveIsTimeout ==
    LET configured == IF kaSet = <<>> THEN 29 * 60 ELSE kaSet[1] IN
    /\ nHandles > 0 => keepalive = configured
    /\ op = "wait_keepalive" =>
        /\ timeout = <<configured>>
        /\ Len(ops) >= 3 => ops[3].op = "read_timeout"
        /\ (Len(ops) >= 4 /\ ops[3].res[1] = "Ok") =>
              (ops[4].op = "set_read_timeout" /\ ops[4].arg = <<configured>>)
        /\ pc = "wik_read" => deadline = <<configured>>

C13_Witness ==
    /\ op = "wait_keepalive"
    /\ pc = "wik_read"
    /\ kaSet = <<20>>
    /\ deadline = <<20>>
    /\ prior = <<5>>

(* C14: on one Session, between a Handle's IDLE command and that Handle's   *)
(* release nothing is written but that Handle's own DONE: no other IDLE     *)
(* command (so at most one Handle is alive) and no other Session command;   *)
(* and every IDLE command is written with no Handle alive.                  *)
C14_OneHandleOwnsTheConnection ==
    /\ [](\A i \in 1..Len(wire) : \A j \in (i + 1)..Len(wire) :
              wire[i][1] = "IDLE" => wire[j] = <<"DONE", wire[i][2]>>)
    /\ []((pc \notin {"ready", "released", "init_cmd"}) =>
              (wire # <<>> /\ wire[Len(wire)][2] = nHandles))
    /\ [][(wire' # wire /\ wire' # <<>> /\ wire'[Len(wire')][1] \in {"IDLE", "CMD"})
            => (pc \in {"ready", "released", "init_cmd"}
                 /\ \A i \in 1..Len(wire) : wire[i][1] = "CMD")]_vars

\* The re-create loop: after a wait that gave false and a release, another
\* command ran and a second Handle is held.
C14_Witness ==
    /\ pc = "constructed"
    /\ nHandles = 2
    /\ wire = << <<"CMD", 0>>, <<"IDLE", 2>> >>

(* C15: a terminate that finds done false makes its calls in the order      *)
(* write DONE, flush, read one response, each only after the one before     *)
(* succeeded; done is true before the first of them; and whichever of them  *)
(* fails, no call follows it: the terminate at release does no I/O and      *)
(* DONE is not written a second time.                                       *)
C15_TerminateOrder ==
    /\ pc \in {"term_write", "term_flush", "term_read"} => done
    /\ DoneWrites <= 1
    /\ \A i \in 1..Len(ops) :
        /\ ops[i].op = "write_line" =>
            /\ done
            /\ Len(ops) <= i + 2
            /\ Len(ops) >= i + 1 =>
                  (ops[i].res[1] = "Ok" /\ ops[i + 1].op = "flush")
            /\ Len(ops) >= i + 2 =>
                  (ops[i + 1].res[1] = "Ok" /\ ops[i + 2].op = "read_response")
            /\ (ops[i].res[1] = "Ok" /\ Len(ops) = i) => pc = "term_flush"
            /\ (Len(ops) = i + 1 /\ ops[i + 1].res[1] = "Ok") => pc = "term_read"
        /\ ops[i].op = "flush" => (i > 1 /\ ops[i - 1].op = "write_line")
        /\ ops[i].op = "read_response" => (i > 1 /\ ops[i - 1].op = "flush")

\* wait's own terminate failed at the write; the Handle was then released.
C15_Witness ==
    /\ Released
    /\ op = "wait"
    /\ doneBy = "wait_inner"
    /\ result = <<"Err", "write_line", "Io", "BrokenPipe">>
    /\ ops[Len(ops)].op = "write_line"
    /\ DoneWrites = 1

(* C16: whenever a wait operation produces false, the long-wait has been    *)
(* ended by that operation before it returns: DONE was written, flushed,    *)
(* and one response was read, all successfully and as the last calls made,  *)
(* and the Handle is consumed.                                              *)
C16_FalseMeansTerminated ==
    ((pc = "drop" /\ ret = <<"Ok", "false">>)
        \/ (InTerminate /\ caller = "drop" /\ ret = <<"Ok", "false">>)
        \/ (Released /\ result = <<"Ok", "false">>)) =>
        LET n == Len(ops) IN
        /\ n >= 3
        /\ ops[n - 2] = [op |-> "write_line", arg |-> <<"DONE">>,
                         res |-> <<"Ok", "unit">>]
        /\ ops[n - 1].op = "flush" /\ ops[n - 1].res = <<"Ok", "unit">>
        /\ ops[n].op = "read_response" /\ ops[n].res = <<"Ok", "unit">>
        /\ done
        /\ doneBy \in {"wait_inner", "wait_inner_keepalive"}
        /\ DoneWrites = 1
        /\ op \in {"wait", "wait_timeout", "wait_keepalive"}

\* wait() under a read deadline the caller had set earlier times out.
C16_Witness ==
    /\ Released
    /\ op = "wait"
    /\ prior = <<5>>
    /\ result = <<"Ok", "false">>
    /\ rd = <<"Err", "readline", "Io", "TimedOut">>

(* C17 as stated: with a finite timeout d and a server that sends nothing   *)
(* after the handshake, a call of wait_timeout(d) eventually returns.       *)
C17_Original ==
    (silent /\ op \in TimedWaits /\ pc = "wt_get") ~> Released

----------------------------------------------------------------------------
\* The transport calls that read or install the read deadline.
DeadlineOps == {"read_timeout", "set_read_timeout"}

(* C18: in wait_timeout (and wait_keepalive, which delegates to it) a       *)
(* failed deadline call ends the wait at once and its error is the value    *)
(* the caller gets: after a failure of the read or the install at the start *)
(* no line read is attempted; a failed install of the 60-second deadline    *)
(* gives that error and not false; with a line read, a failed restore of    *)
(* the saved deadline gives that error and not true.                        *)
C18_DeadlineFailureIsReturned ==
    op \in TimedWaits =>
        \A i \in 1..Len(ops) :
            (ops[i].op \in DeadlineOps /\ ops[i].res[1] = "Err") =>
                /\ pc \in {"drop", "terminate", "term_write", "term_flush",
                           "term_read", "released"}
                /\ caller \in {"none", "drop"}
                /\ ret = ops[i].res
                /\ Released => (result = ops[i].res /\ IsErr(result))
                /\ \A j \in (i + 1)..Len(ops) :
                      ops[j].op \notin DeadlineOps \cup {"readline"}
                /\ i \in {3, 4, 6}
                /\ i \in {3, 4} => (rd = NoValue /\ Len(OpsNamed("readline")) = 1)
                /\ i = 6 => ops[i].arg = (IF RdTimedOut THEN Some(DrainSecs) ELSE prior)

\* A line arrived, restoring the saved deadline failed, and the caller got
\* that failure.
C18_Witness ==
    /\ Released
    /\ op = "wait_timeout"
    /\ RdLine
    /\ ops[6].op = "set_read_timeout"
    /\ ops[6].res = <<"Err", "set_read_timeout", "Io", "BrokenPipe">>
    /\ result = ops[6].res

----------------------------------------------------------------------------
(* C19: for each Handle, done is true exactly when the Handle has attempted *)
(* to write DONE (terminate sets the flag and writes DONE as consecutive    *)
(* statements: between the two the flag is set and the write is the very    *)
(* next step); done never goes from true back to false while the Handle     *)
(* lives; DONE is written at most once, and only right after the step that  *)
(* flipped done from false to true.                                         *)
C19_DoneIffDoneAttempted ==
    /\ [](done <=> (DoneWrites >= 1 \/ pc = "term_write"))
    /\ [](pc = "term_write" => DoneWrites = 0)
    /\ [](DoneWrites <= 1)
    /\ [][pc = "term_write" => DoneWrites' = 1]_vars
    /\ [][nHandles' = nHandles =>
            /\ done => done'
            /\ pc' = "term_write" => (~done /\ done')
            /\ (~done /\ done') => pc' = "term_write"
            /\ DoneWrites' # DoneWrites => (pc = "term_write" /\ done)]_vars

\* A wait has terminated the Handle (one DONE attempted, flag set) and the
\* Handle is about to be dropped.
C19_Witness ==
    /\ pc = "drop"
    /\ op = "wait"
    /\ done
    /\ DoneWrites = 1
    /\ doneBy = "wait_inner"

----------------------------------------------------------------------------
(* C20 as stated: when the line read of wait_timeout does not time out, the *)
(* DONE write and the tagged-response read of the termination at release   *)
(* run under the deadline the caller had before the call.                   *)
C20_Original ==
    (op \in TimedWaits /\ (RdLine \/ RdOtherErr)
       /\ pc \in {"term_write", "term_flush", "term_read"}) =>
        deadline = prior

(* C20 amended: when the line read does not time out, the saved deadline is *)
(* handed back to the transport before DONE is written and before the       *)
(* tagged response is read; if that call succeeds the termination at        *)
(* release runs under the caller's prior deadline (possibly none); if it    *)
(* fails the transport keeps the wait timeout d and the termination at      *)
(* release runs under d.  The 60-second deadline is never installed.        *)
C20_Amended ==
    (op \in TimedWaits /\ (RdLine \/ RdOtherErr) /\ pc # "restore") =>
        /\ Len(ops) >= 6
        /\ ops[6].op = "set_read_timeout"
        /\ ops[6].arg = prior
        /\ Len(OpsNamed("set_read_timeout")) = 2
        /\ \A i \in 1..6 : ops[i].op \notin {"write_line", "read_response"}
        /\ caller \in {"none", "drop"}
        /\ pc \in {"term_write", "term_flush", "term_read", "released"} =>
              deadline = (IF ops[6].res[1] = "Ok" THEN prior ELSE timeout)

\* The release's tagged-response read ran with no deadline, the caller's
\* original setting, after a wait_timeout that read a line.
C20_Witness ==
    /\ Released
    /\ op = "wait_timeout"
    /\ RdLine
    /\ prior = None
    /\ ops[6].res = <<"Ok", "unit">>
    /\ Len(ops) = 9
    /\ ops[9].op = "read_response"
    /\ deadline = None

====
